---- MODULE Spec2Model ----
(***************************************************************************)
(* Signature verification service: the serving handlers of app.py          *)
(* (predict, verify, reload), the training controller of train.py, and    *)
(* the training pipeline's data: the dataset scan and two-stage split of   *)
(* data_preprocessing.py and the evaluator of train.py.                    *)
(*                                                                         *)
(* Probabilities are numbers in thousandths: One = 1000 stands for 1.0.    *)
(* The classifier returns numpy float32 scalars, so the arithmetic of the  *)
(* verify handler rounds.  float32 is scaled down to a decimal format with *)
(* the same shape: numbers below FloatFineBelow are spaced one unit apart, *)
(* numbers from FloatFineBelow up to One are spaced FloatUlp units apart,  *)
(* and a result is rounded to the nearest representable number, ties to    *)
(* the even one.                                                           *)
(***************************************************************************)
EXTENDS Integers, Sequences, FiniteSets

VARIABLES
    \* ---- the decision logic of the handlers, on arbitrary classifier outputs
    d_ref_pred,     \* classifier output for the reference image (also predict's input)
    d_test_pred,    \* classifier output for the test image
    d_verify,       \* outcome of the verify handler's tail, or NoOutcome
    d_predict,      \* outcome of the predict handler's tail, or NoOutcome
    \* ---- the server
    started,        \* the startup event has run
    loaded_model,   \* app.py global loaded_model: None or a model
    disk,           \* saved_models/signature_model_latest.keras
    vreq,           \* the verify request in flight
    preq,           \* the predict request in flight
    last_load,      \* the latest run of load_trained_model and its caller's answer
    \* ---- the training controller
    tr,
    \* ---- the training pipeline's data: assembly, split, evaluation
    asm,            \* a run of train.py's main: the dataset scan and what follows
    sp,             \* prepare_dataset's two-stage split of an assembled dataset
    ev,             \* evaluate_model on a test split
    probe           \* prepare_dataset's folder probing for one user

decide_vars == <<d_ref_pred, d_test_pred, d_verify, d_predict>>
server_vars == <<started, loaded_model, disk, vreq, preq, last_load>>
data_vars == <<asm, sp, ev, probe>>
vars == <<decide_vars, server_vars, tr, data_vars>>

\* a handler outcome that is not there yet
NoOutcome == [done |-> FALSE]
Outcome(r) == [done |-> TRUE, result |-> r]

\* Python's None for the global loaded_model; a model is a non-empty tuple
None == << >>

(***************************************************************************)
(* Numbers                                                                 *)
(***************************************************************************)
\* the literal 1 of `1 - abs(ref_pred - test_pred)`, in thousandths
One == 1000
\* config.CONFIDENCE_THRESHOLD = 0.5
CONFIDENCE_THRESHOLD == 500
\* the literal 0.85 of `similarity > 0.85`
SIMILARITY_THRESHOLD == 850
\* spacing of the scaled-down float format in [FloatFineBelow, One]
FloatUlp == 10
\* below this the scaled-down format is spaced one unit apart
FloatFineBelow == 100

Abs(x) == IF x < 0 THEN -x ELSE x

\* the numbers the scaled-down float format represents in [0, 1]
Representable(x) == x \in 0..One /\ (x < FloatFineBelow \/ x % FloatUlp = 0)

Probs == {x \in 0..One : Representable(x)}

\* round a non-negative exact result to the nearest representable number
RoundNearestEven(r) ==
    IF r < FloatFineBelow THEN r
    ELSE LET lo  == (r \div FloatUlp) * FloatUlp
             rem == r - lo
         IN  IF 2 * rem < FloatUlp THEN lo
             ELSE IF 2 * rem > FloatUlp THEN lo + FloatUlp
             ELSE IF (lo \div FloatUlp) % 2 = 0 THEN lo ELSE lo + FloatUlp

\* float32 subtraction: the exact difference, rounded
FloatSub(a, b) ==
    IF a >= b THEN RoundNearestEven(a - b) ELSE -RoundNearestEven(b - a)

(***************************************************************************)
(* Values as Python sees them: the JSON encoder accepts Python's own       *)
(* str/bool/float and raises TypeError on a numpy scalar.                  *)
(***************************************************************************)
NumpyBool(b) == [type |-> "numpy.bool_", value |-> b]
PyStr(s)     == [type |-> "str", value |-> s]
PyFloat(x)   == [type |-> "float", value |-> x]

JsonNativeTypes == {"str", "float", "bool"}

\* HTTPException(status_code, detail)
HTTPException(code, detail) == [status |-> code, detail |-> detail]

\* JSONResponse(content=...): json.dumps of the content, which raises on
\* any value that is not a native type; `types' are the types of its values
JSONResponse(content, types) ==
    IF \A i \in 1..Len(types) : types[i] \in JsonNativeTypes
    THEN [status |-> 200, content |-> content]
    ELSE [raised |-> "TypeError"]

(***************************************************************************)
(* The classification rule and the similarity of app.py                    *)
(***************************************************************************)
IsGenuineStrict(prob) == prob > CONFIDENCE_THRESHOLD

\* prediction_prob >= config.CONFIDENCE_THRESHOLD
IsGenuine(prob) == prob >= CONFIDENCE_THRESHOLD

ClassName(is_genuine) == IF is_genuine THEN "GENUINE" ELSE "FORGED"

SimilarityNoAbs(ref_pred, test_pred) ==
    FloatSub(One, FloatSub(ref_pred, test_pred))

\* similarity = 1 - abs(ref_pred - test_pred), on float32 scalars
Similarity(ref_pred, test_pred) ==
    FloatSub(One, Abs(FloatSub(ref_pred, test_pred)))

\* the locals of verify_signature after both predictions are in
VerifyLocals(ref_pred, test_pred) ==
    LET ref_is_genuine  == IsGenuine(ref_pred)
        test_is_genuine == IsGenuine(test_pred)
        similarity      == Similarity(ref_pred, test_pred)
    IN  [ref_pred        |-> ref_pred,
         test_pred       |-> test_pred,
         ref_is_genuine  |-> ref_is_genuine,
         test_is_genuine |-> test_is_genuine,
         similarity      |-> similarity,
         \* `a and b and c' on numpy booleans yields a numpy boolean
         match           |-> NumpyBool(ref_is_genuine /\ test_is_genuine
                                       /\ similarity > SIMILARITY_THRESHOLD)]

\* the response dict of verify_signature (the rounded confidence and score
\* fields and the timestamp are Python floats and strings; left out)
VerifyContent(l) ==
    [match           |-> l.match,
     reference       |-> PyStr(ClassName(l.ref_is_genuine)),
     test            |-> PyStr(ClassName(l.test_is_genuine)),
     verdict         |-> PyStr(IF l.match.value THEN "VERIFIED" ELSE "REJECTED")]

VerifyContentTypes(c) ==
    <<c.match.type, c.reference.type, c.test.type, c.verdict.type>>

\* a TypeError raised inside the try block is caught by `except Exception'
VerifyCatch(r) ==
    IF "raised" \in DOMAIN r
    THEN HTTPException(500, "Verification error")
    ELSE r

\* verify_signature from the classification to the end of the handler
VerifyTail(ref_pred, test_pred) ==
    LET l == VerifyLocals(ref_pred, test_pred)
        c == VerifyContent(l)
    IN  [locals   |-> l,
         response |-> VerifyCatch(JSONResponse(c, VerifyContentTypes(c)))]

\* the response dict of predict_signature (rounded fields left out)
PredictContent(prediction_prob) ==
    [prediction |-> PyStr(ClassName(IsGenuine(prediction_prob))),
     threshold  |-> PyFloat(CONFIDENCE_THRESHOLD)]

PredictContentTypes(c) == <<c.prediction.type, c.threshold.type>>

\* a ValueError is reported as 400, any other exception as 500
PredictCatch(r) ==
    IF "raised" \notin DOMAIN r THEN r
    ELSE IF r.raised = "ValueError"
         THEN HTTPException(400, "Could not decode image")
         ELSE HTTPException(500, "Prediction error")

\* predict_signature from the classification to the end of the handler
PredictTail(prediction_prob) ==
    LET c == PredictContent(prediction_prob)
    IN  [prob     |-> prediction_prob,
         response |-> PredictCatch(JSONResponse(c, PredictContentTypes(c)))]

(***************************************************************************)
(* Specification of the decision logic: every pair of classifier outputs   *)
(***************************************************************************)
\* load_trained_model has not run yet
NoLoad ==
    [by |-> "none", outcome |-> "none", held_before |-> FALSE,
     response |-> [status |-> "none"]]

ServerIdle ==
    /\ started = FALSE
    /\ loaded_model = None
    /\ disk = [file |-> "absent"]
    /\ vreq = [pc |-> "idle"]
    /\ preq = [pc |-> "idle"]
    /\ last_load = NoLoad

TrainIdle == tr = [pc |-> "idle"]

AssembleIdle == asm = [pc |-> "idle"]
SplitIdle == sp = [pc |-> "idle"]
EvaluateIdle == ev = [pc |-> "idle"]
ProbeIdle == probe = [pc |-> "idle"]
DataIdle == AssembleIdle /\ SplitIdle /\ EvaluateIdle /\ ProbeIdle

InitDecide ==
    /\ d_ref_pred \in Probs
    /\ d_test_pred \in Probs
    /\ d_verify = NoOutcome
    /\ d_predict = NoOutcome
    /\ ServerIdle
    /\ TrainIdle
    /\ DataIdle

DecideVerify ==
    /\ ~d_verify.done
    /\ d_verify' = Outcome(VerifyTail(d_ref_pred, d_test_pred))
    /\ UNCHANGED <<d_ref_pred, d_test_pred, d_predict, server_vars, tr, data_vars>>

DecidePredict ==
    /\ ~d_predict.done
    /\ d_predict' = Outcome(PredictTail(d_ref_pred))
    /\ UNCHANGED <<d_ref_pred, d_test_pred, d_verify, server_vars, tr, data_vars>>

NextDecide == DecideVerify \/ DecidePredict

SpecDecide == InitDecide /\ [][NextDecide]_vars

(***************************************************************************)
(* The server: app.py's global loaded_model, the model file on disk, one   *)
(* verify and one predict request in flight, and reloads between them.     *)
(* The handlers are coroutines on one event loop: a handler runs without   *)
(* interruption from one `await' to the next, and load_trained_model has   *)
(* no `await' in it.                                                       *)
(***************************************************************************)
\* the decodable images an upload can hold
Images == {1, 2}

\* upload bytes that cv2.imdecode cannot decode
Undecodable == 0

Uploads == Images \cup {Undecodable}

\* the classifier outputs the served models produce
ServeProbs == {400, 950}

\* a loaded Keras model is the function it computes: predict is
\* deterministic, one probability per image
Models == [Images -> ServeProbs]

DiskStates ==
    {[file |-> "absent"], [file |-> "corrupt"]}
        \cup {[file |-> "saved", model |-> m] : m \in Models}

\* model.load_model('signature_model_latest', format='keras'): None when the
\* file is missing; keras.models.load_model raises on a file it cannot read
load_model(d) ==
    IF d.file = "absent" THEN [returned |-> None]
    ELSE IF d.file = "corrupt" THEN [raised |-> "Exception"]
    ELSE [returned |-> d.model]

\* a loader that keeps the model it had when the load raises
load_trained_model_keeps_on_error(d, current) ==
    LET r == load_model(d)
    IN  IF "raised" \in DOMAIN r THEN current ELSE r.returned

\* load_trained_model: the new value of the global loaded_model
load_trained_model(d, current) ==
    LET r == load_model(d)
    IN  IF "raised" \in DOMAIN r THEN None ELSE r.returned

\* preprocess_signature: ValueError when the bytes do not decode, else the
\* resized, normalised image (a function of the bytes alone)
preprocess_signature(image_bytes) ==
    IF image_bytes = Undecodable
    THEN [raised |-> "ValueError"]
    ELSE [returned |-> image_bytes]

\* loaded_model.predict(processed)[0][0]: AttributeError on None
model_predict(m, processed) ==
    IF m = None THEN [raised |-> "AttributeError"]
    ELSE [returned |-> m[processed]]

\* a handler that raised HTTPException before its try block: nothing was
\* classified
Aborted(response) ==
    [classified |-> << >>, raised |-> "none", response |-> response]

ModelUnavailableNever(current) == FALSE

\* `if loaded_model is None: raise HTTPException(status_code=503, ...)'
ModelUnavailable(current) == current = None

\* what model.load_model did in one load attempt
load_outcome(d) ==
    LET r == load_model(d)
    IN  IF "raised" \in DOMAIN r THEN "raised"
        ELSE IF r.returned = None THEN "missing"
        ELSE "loaded"

\* the body POST /model/reload returns once load_trained_model has run
reload_response(current) ==
    IF current = None
    THEN [status |-> "failed", message |-> "Could not load model"]
    ELSE [status |-> "success", message |-> "Model reloaded successfully"]

\* GET /health
health_check(current) ==
    [status |-> "healthy", model_loaded |-> current # None]

ServerInit ==
    /\ started = FALSE
    /\ loaded_model = None
    /\ disk \in DiskStates
    /\ vreq = [pc |-> "idle"]
    /\ preq = [pc |-> "idle"]
    /\ last_load = NoLoad

DecideIdle ==
    /\ d_ref_pred = 0
    /\ d_test_pred = 0
    /\ d_verify = NoOutcome
    /\ d_predict = NoOutcome

Init == DecideIdle /\ ServerInit /\ TrainIdle /\ DataIdle

\* startup_event
Startup ==
    /\ ~started
    /\ started' = TRUE
    /\ loaded_model' = load_trained_model(disk, loaded_model)
    /\ last_load' = [by |-> "startup", outcome |-> load_outcome(disk),
                     held_before |-> loaded_model # None,
                     response |-> [status |-> "none"]]
    /\ UNCHANGED <<disk, vreq, preq, decide_vars, tr, data_vars>>

\* POST /model/reload
reload_model ==
    /\ started
    /\ loaded_model' = load_trained_model(disk, loaded_model)
    /\ last_load' = [by |-> "reload", outcome |-> load_outcome(disk),
                     held_before |-> loaded_model # None,
                     response |-> reload_response(loaded_model')]
    /\ UNCHANGED <<started, disk, vreq, preq, decide_vars, tr, data_vars>>

\* train.py main saves the trained model as signature_model_latest
TrainerSaves ==
    /\ \E m \in Models : disk' = [file |-> "saved", model |-> m]
    /\ UNCHANGED <<started, loaded_model, vreq, preq, last_load, decide_vars, tr,
                 data_vars>>

\* the model file is removed, or left unreadable (a save cut short)
FileLost ==
    /\ \E f \in {"absent", "corrupt"} : disk' = [file |-> f]
    /\ disk' # disk
    /\ UNCHANGED <<started, loaded_model, vreq, preq, last_load, decide_vars, tr,
                 data_vars>>

(***************************************************************************)
(* POST /verify                                                            *)
(***************************************************************************)
verify_predict_models_captured(req, current) == <<req.checked_model, current>>

\* the model each of the two predict calls runs against: both read the
\* global loaded_model, with no `await' between them
verify_predict_models(req, current) == <<current, current>>

\* the try block of verify_signature once both uploads are read
verify_body(req, current) ==
    LET ref_processed  == preprocess_signature(req.reference)
        test_processed == preprocess_signature(req.test)
        models         == verify_predict_models(req, current)
        ref            == model_predict(models[1], ref_processed.returned)
        test           == model_predict(models[2], test_processed.returned)
    IN  IF "raised" \in DOMAIN ref_processed
        THEN [classified |-> << >>, raised |-> ref_processed.raised,
              response |-> VerifyCatch(ref_processed)]
        ELSE IF "raised" \in DOMAIN test_processed
        THEN [classified |-> << >>, raised |-> test_processed.raised,
              response |-> VerifyCatch(test_processed)]
        ELSE IF "raised" \in DOMAIN ref
        THEN [classified |-> << >>, raised |-> ref.raised,
              response |-> VerifyCatch(ref)]
        ELSE IF "raised" \in DOMAIN test
        THEN [classified |-> <<models[1]>>, raised |-> test.raised,
              response |-> VerifyCatch(test)]
        ELSE LET t == VerifyTail(ref.returned, test.returned)
             IN  [classified |-> models, raised |-> "none",
                  locals |-> t.locals, response |-> t.response]

\* the handler up to its first await: the model-availability check
VerifyStart ==
    /\ started
    /\ vreq.pc \in {"idle", "done"}
    /\ \E reference \in Uploads, test \in Uploads :
         IF ModelUnavailable(loaded_model)
         THEN vreq' = [pc |-> "done", reference |-> reference, test |-> test,
                       reads |-> 0, checked_model |-> loaded_model,
                       body |-> Aborted(HTTPException(503, "Model not loaded"))]
         ELSE vreq' = [pc |-> "read_ref", reference |-> reference,
                       test |-> test, reads |-> 0,
                       checked_model |-> loaded_model]
    /\ UNCHANGED <<started, loaded_model, disk, preq, last_load, decide_vars, tr,
                 data_vars>>

\* ref_bytes = await reference.read() completes
VerifyReadRef ==
    /\ vreq.pc = "read_ref"
    /\ vreq' = [vreq EXCEPT !.pc = "read_test", !.reads = 1]
    /\ UNCHANGED <<started, loaded_model, disk, preq, last_load, decide_vars, tr,
                 data_vars>>

\* test_bytes = await test.read() completes and the handler runs to its end
VerifyFinish ==
    /\ vreq.pc = "read_test"
    /\ LET b == verify_body(vreq, loaded_model)
       IN  vreq' = [pc |-> "done", reference |-> vreq.reference,
                    test |-> vreq.test, reads |-> 2,
                    checked_model |-> vreq.checked_model, body |-> b]
    /\ UNCHANGED <<started, loaded_model, disk, preq, last_load, decide_vars, tr,
                 data_vars>>

(***************************************************************************)
(* POST /predict                                                           *)
(***************************************************************************)
\* the try block of predict_signature once the upload is read
predict_body(req, current) ==
    LET processed == preprocess_signature(req.file)
        pred      == model_predict(current, processed.returned)
    IN  IF "raised" \in DOMAIN processed
        THEN [classified |-> << >>, raised |-> processed.raised,
              response |-> PredictCatch(processed)]
        ELSE IF "raised" \in DOMAIN pred
        THEN [classified |-> << >>, raised |-> pred.raised,
              response |-> PredictCatch(pred)]
        ELSE LET t == PredictTail(pred.returned)
             IN  [classified |-> <<current>>, raised |-> "none",
                  prob |-> t.prob, response |-> t.response]

\* the handler up to its await: availability check, then content type
PredictStart ==
    /\ started
    /\ preq.pc \in {"idle", "done"}
    /\ \E file \in Uploads, is_image_type \in BOOLEAN :
         IF ModelUnavailable(loaded_model)
         THEN preq' = [pc |-> "done", file |-> file, reads |-> 0,
                       checked_model |-> loaded_model,
                       body |-> Aborted(HTTPException(503, "Model not loaded"))]
         ELSE IF ~is_image_type
         THEN preq' = [pc |-> "done", file |-> file, reads |-> 0,
                       checked_model |-> loaded_model,
                       body |-> Aborted(HTTPException(400, "File must be an image"))]
         ELSE preq' = [pc |-> "read", file |-> file, reads |-> 0,
                       checked_model |-> loaded_model]
    /\ UNCHANGED <<started, loaded_model, disk, vreq, last_load, decide_vars, tr,
                 data_vars>>

\* image_bytes = await file.read() completes and the handler runs to its end
PredictFinish ==
    /\ preq.pc = "read"
    /\ LET b == predict_body(preq, loaded_model)
       IN  preq' = [pc |-> "done", file |-> preq.file, reads |-> 1,
                    checked_model |-> preq.checked_model, body |-> b]
    /\ UNCHANGED <<started, loaded_model, disk, vreq, last_load, decide_vars, tr,
                 data_vars>>

Next ==
    \/ Startup
    \/ reload_model
    \/ TrainerSaves
    \/ FileLost
    \/ VerifyStart
    \/ VerifyReadRef
    \/ VerifyFinish
    \/ PredictStart
    \/ PredictFinish


Spec == Init /\ [][Next]_vars

(***************************************************************************)
(* Properties of the decision logic (SpecDecide)                           *)
(***************************************************************************)
\* C1: for every pair of classifier outputs, verify returns a verdict, and
\* the verdict is MATCH (match true, verdict VERIFIED) exactly when both
\* outputs are genuine and 1 - |p_ref - p_test| > 0.85, REJECT otherwise.
C1_VerifyReturnsMatchIff ==
    d_verify.done =>
        LET r == d_verify.result.response
            expected == /\ d_ref_pred >= CONFIDENCE_THRESHOLD
                        /\ d_test_pred >= CONFIDENCE_THRESHOLD
                        /\ One - Abs(d_ref_pred - d_test_pred)
                               > SIMILARITY_THRESHOLD
        IN  /\ r.status = 200
            /\ r.content.match.value = expected
            /\ r.content.verdict.value
                   = (IF expected THEN "VERIFIED" ELSE "REJECTED")

\* The match the handler computes before it builds its response does follow
\* the rule of C1; the response is lost when it is serialised.
VerifyComputedMatchFollowsRule ==
    d_verify.done =>
        LET l == d_verify.result.locals
        IN  l.match.value = (/\ d_ref_pred >= CONFIDENCE_THRESHOLD
                             /\ d_test_pred >= CONFIDENCE_THRESHOLD
                             /\ l.similarity > SIMILARITY_THRESHOLD)

\* C3: an image is classified GENUINE exactly when its probability is at
\* least the confidence threshold, FORGED otherwise, in predict's response
\* and in both classifications verify computes.
C3_GenuineIffAtLeastThreshold ==
    /\ d_predict.done =>
         LET r == d_predict.result.response
         IN  /\ r.status = 200
             /\ r.content.prediction.value
                    = (IF d_ref_pred >= CONFIDENCE_THRESHOLD
                       THEN "GENUINE" ELSE "FORGED")
    /\ d_verify.done =>
         LET l == d_verify.result.locals
         IN  /\ l.ref_is_genuine = (d_ref_pred >= CONFIDENCE_THRESHOLD)
             /\ l.test_is_genuine = (d_test_pred >= CONFIDENCE_THRESHOLD)

\* C3 witness: a probability exactly at the threshold, classified GENUINE by
\* predict and by verify's test side.
C3_Witness ==
    /\ d_predict.done /\ d_verify.done
    /\ d_ref_pred = CONFIDENCE_THRESHOLD
    /\ d_test_pred = CONFIDENCE_THRESHOLD
    /\ d_predict.result.response.content.prediction.value = "GENUINE"
    /\ d_verify.result.locals.test_is_genuine

VerifyClassifiedBoth == vreq.pc = "done" /\ Len(vreq.body.classified) = 2

\* C2: with the same image as reference and test, similarity is exactly 1
\* and verify returns MATCH exactly when that image is classified genuine,
\* REJECT otherwise.
C2_SameImageVerdict ==
    (VerifyClassifiedBoth /\ vreq.reference = vreq.test) =>
        LET b == vreq.body
            genuine == b.locals.ref_pred >= CONFIDENCE_THRESHOLD
        IN  /\ b.locals.ref_pred = b.locals.test_pred
            /\ b.locals.similarity = One
            /\ b.response.status = 200
            /\ b.response.content.verdict.value
                   = (IF genuine THEN "VERIFIED" ELSE "REJECTED")

\* C5: a predict or verify request whose availability check finds no model
\* ends with status 503, has read no upload and classified nothing; a
\* request that got past the check saw a model.
C5_NoModelAborts503 ==
    /\ (vreq.pc = "done" /\ vreq.checked_model = None) =>
          /\ vreq.body.response.status = 503
          /\ vreq.reads = 0
          /\ vreq.body.classified = << >>
    /\ (preq.pc = "done" /\ preq.checked_model = None) =>
          /\ preq.body.response.status = 503
          /\ preq.reads = 0
          /\ preq.body.classified = << >>
    /\ vreq.pc \in {"read_ref", "read_test"} => vreq.checked_model # None
    /\ preq.pc = "read" => preq.checked_model # None

\* C5 witness: both requests were turned away with 503 while a model file
\* was on disk.
C5_Witness ==
    /\ vreq.pc = "done" /\ vreq.body.response.status = 503
    /\ preq.pc = "done" /\ preq.body.response.status = 503
    /\ vreq.reference \in Images /\ preq.file \in Images
    /\ disk.file = "saved"

\* C6: when either upload of verify does not decode, no verdict is returned
\* and the error has the status predict gives an undecodable image (400),
\* not the generic internal error.
C6_VerifyDecodeErrorKind ==
    (/\ vreq.pc = "done" /\ vreq.reads = 2
     /\ (vreq.reference = Undecodable \/ vreq.test = Undecodable)) =>
        /\ vreq.body.classified = << >>
        /\ vreq.body.response.status
               = PredictCatch(preprocess_signature(Undecodable)).status

\* C7: the classifier invocations of one request run against one fully
\* loaded model: verify classifies either nothing or both images, both with
\* the same model, and predict with a model.
C7_OneModelPerRequest ==
    /\ vreq.pc = "done" =>
         LET c == vreq.body.classified
         IN  /\ Len(c) \in {0, 2}
             /\ Len(c) = 2 => (c[1] = c[2] /\ c[1] \in Models)
    /\ preq.pc = "done" =>
         LET c == preq.body.classified
         IN  /\ Len(c) \in {0, 1}
             /\ Len(c) = 1 => c[1] \in Models

\* C7 witness: a reload replaced the model while verify was suspended, and
\* both invocations ran against the new model.
C7_Witness ==
    /\ VerifyClassifiedBoth
    /\ vreq.body.classified[1] # vreq.checked_model
    /\ vreq.body.classified[1] = vreq.body.classified[2]

\* C24: a request that passed the model-availability check never reaches
\* the classifier call with the model absent, and so never ends in the
\* generic internal error for that reason, whatever reloads ran while it
\* was suspended reading its uploads.
C24_ReloadDoesNotClearModelUnderRequest ==
    /\ (vreq.pc = "done" /\ vreq.checked_model # None) =>
          /\ vreq.body.raised # "AttributeError"
          /\ (vreq.reference \in Images /\ vreq.test \in Images) =>
                Len(vreq.body.classified) = 2
    /\ (preq.pc = "done" /\ preq.checked_model # None /\ preq.reads = 1) =>
          /\ preq.body.raised # "AttributeError"
          /\ preq.file \in Images => preq.body.response.status = 200

\* what the code does: the classifier is called on whatever the global
\* holds when the read completes, and a request meets None there only
\* after it passed the check with a model
\* C25: once load_trained_model has run, the server holds a model exactly
\* when its latest run loaded one; a reload that found no file or raised
\* leaves no model, answers status "failed", and /health then reports
\* model_loaded false, whether or not a model was held before it
C25_ModelHeldIffLastLoadSucceeded ==
    /\ last_load.by # "none" =>
          (loaded_model # None <=> last_load.outcome = "loaded")
    /\ (last_load.by = "reload" /\ last_load.outcome \in {"missing", "raised"}) =>
          /\ loaded_model = None
          /\ last_load.response.status = "failed"
          /\ health_check(loaded_model).model_loaded = FALSE
    /\ (last_load.by = "reload" /\ last_load.outcome = "loaded") =>
          /\ last_load.response.status = "success"
          /\ health_check(loaded_model).model_loaded = TRUE

\* a reload raised while loading although a model was held before it
C25_Witness ==
    /\ last_load.by = "reload"
    /\ last_load.outcome = "raised"
    /\ last_load.held_before
    /\ loaded_model = None
    /\ last_load.response.status = "failed"

\* the same with the file missing
ReloadOnMissingFileClears ==
    /\ last_load.by = "reload"
    /\ last_load.outcome = "missing"
    /\ last_load.held_before
    /\ loaded_model = None

ModelAbsentOnlyAfterCheck ==
    /\ (vreq.pc = "done" /\ vreq.body.raised = "AttributeError") =>
          /\ vreq.checked_model # None
          /\ vreq.reads = 2
          /\ vreq.body.response.status = 500
    /\ (preq.pc = "done" /\ preq.body.raised = "AttributeError") =>
          /\ preq.checked_model # None
          /\ preq.reads = 1
          /\ preq.body.response.status = 500

(***************************************************************************)
(* The training controller: train_model's call of model_obj.fit with the   *)
(* callbacks EarlyStopping, ModelCheckpoint and ReduceLROnPlateau, in that *)
(* order, followed by Keras's own History callback.                        *)
(*                                                                         *)
(* The epoch budget and the patience windows are scaled down from the      *)
(* program's 50, 10 and 5, keeping their order.  Model parameters are      *)
(* named by the epoch that produced them (0: the untrained model).         *)
(* Validation losses are in units of 0.0001.  The learning rate is an     *)
(* exact fraction num/den in units of 0.00001, the configured minimum; the *)
(* initial rate is scaled down from the program's 100 units so that the    *)
(* floor is met within the scaled epoch budget.                            *)
(***************************************************************************)
\* config.EPOCHS
EPOCHS == 5
\* config.EARLY_STOPPING_PATIENCE
EARLY_STOPPING_PATIENCE == 3
\* ReduceLROnPlateau(patience=...)
REDUCE_LR_PATIENCE == 2
\* ReduceLROnPlateau's default min_delta, 0.0001
REDUCE_LR_MIN_DELTA == 1
\* config.LEARNING_RATE, in units of min_lr
LEARNING_RATE == 3
\* ReduceLROnPlateau(min_lr=0.00001)
MIN_LR == 1
\* ReduceLROnPlateau(factor=0.5): the divisor
REDUCE_LR_DIVISOR == 2

\* the validation losses and accuracies an epoch can report
LossLevels == {1, 2, 4}
AccLevels == {1, 2}

SetMax(S) == CHOOSE x \in S : \A y \in S : y <= x
SetMin(S) == CHOOSE x \in S : \A y \in S : x <= y

\* np.inf and -np.inf, the callbacks' initial best values
Infinity == SetMax(LossLevels) + REDUCE_LR_MIN_DELTA + 1
NegInfinity == SetMin(AccLevels) - 1

\* the two places where Keras puts EarlyStopping's restore of the best
\* weights: at the stopping epoch only, or in on_train_end whatever ended
\* the loop
KerasVariants == {"restore_when_stopped", "restore_on_train_end"}

RESTORE_BEST_WEIGHTS_OFF == FALSE

\* EarlyStopping(restore_best_weights=True)
RESTORE_BEST_WEIGHTS == TRUE

ES_IsImprovementMax(current, best) == current > best

\* EarlyStopping(monitor='val_loss'): mode min, min_delta 0
ES_IsImprovement(current, best) == current < best

CKPT_IsImprovementOrTie(current, best) == current >= best

\* ModelCheckpoint(monitor='val_accuracy', save_best_only=True): mode max
CKPT_IsImprovement(current, best) == current > best

\* learning rates as exact fractions
Rate(num, den) == [num |-> num, den |-> den]
RateGreater(a, b) == a.num * b.den > b.num * a.den
RateMax(a, b) == IF RateGreater(a, b) THEN a ELSE b
RateTimesFactor(a) == Rate(a.num, a.den * REDUCE_LR_DIVISOR)
InitialRate == Rate(LEARNING_RATE, 1)
MinRate == Rate(MIN_LR, 1)

RLR_IsImprovementNoDelta(current, best) == current < best

\* ReduceLROnPlateau(monitor='val_loss'): mode min with min_delta
RLR_IsImprovement(current, best) == current < best - REDUCE_LR_MIN_DELTA

FitContinuesPastBudget(t) == ~t.stop_training

\* `for epoch in range(epochs)' with `if self.stop_training: break'
FitContinues(t) == t.epoch < EPOCHS /\ ~t.stop_training

\* EarlyStopping.on_epoch_end; epoch counts from 1 here, from 0 in Keras
EarlyStopping_on_epoch_end(t, val_loss) ==
    LET seeded == IF RESTORE_BEST_WEIGHTS /\ t.es_best_weights = << >>
                  THEN [t EXCEPT !.es_best_weights = <<t.weights>>,
                                 !.es_best_epoch = t.epoch]
                  ELSE t
        waited == [seeded EXCEPT !.es_wait = @ + 1]
    IN  IF ES_IsImprovement(val_loss, waited.es_best)
        THEN [waited EXCEPT !.es_best = val_loss,
                            !.es_best_epoch = t.epoch,
                            !.es_best_weights =
                                IF RESTORE_BEST_WEIGHTS
                                THEN <<t.weights>> ELSE @,
                            !.es_wait = 0]
        ELSE IF waited.es_wait >= EARLY_STOPPING_PATIENCE /\ t.epoch > 1
        THEN [waited EXCEPT !.es_stopped_epoch = t.epoch,
                            !.stop_training = TRUE,
                            !.weights =
                                IF /\ t.keras = "restore_when_stopped"
                                   /\ RESTORE_BEST_WEIGHTS
                                   /\ waited.es_best_weights # << >>
                                THEN waited.es_best_weights[1] ELSE @]
        ELSE waited

\* EarlyStopping.on_train_end
EarlyStopping_on_train_end(t) ==
    IF /\ t.keras = "restore_on_train_end"
       /\ RESTORE_BEST_WEIGHTS
       /\ t.es_best_weights # << >>
    THEN [t EXCEPT !.weights = t.es_best_weights[1]]
    ELSE t

\* ModelCheckpoint.on_epoch_end: saves the model as it is now when the
\* monitored accuracy beats the best so far; a failed write raises
ModelCheckpoint_on_epoch_end(t, val_accuracy, write_ok) ==
    IF CKPT_IsImprovement(val_accuracy, t.ckpt_best)
    THEN IF write_ok
         THEN [t EXCEPT !.ckpt_best = val_accuracy,
                        !.ckpt_file = <<t.weights>>,
                        !.ckpt_saved_at = Append(@, t.epoch)]
         ELSE [t EXCEPT !.ckpt_best = val_accuracy,
                        !.raised = "OSError"]
    ELSE t

\* ReduceLROnPlateau.on_epoch_end, cooldown 0: logs['lr'] is the rate the
\* epoch ran with; new_lr = max(old_lr * factor, min_lr) when old_lr > min_lr
ReduceLROnPlateau_on_epoch_end(t, val_loss) ==
    LET logged == [t EXCEPT !.logs_lr = t.lr]
    IN  IF RLR_IsImprovement(val_loss, t.rlr_best)
        THEN [logged EXCEPT !.rlr_best = val_loss, !.rlr_wait = 0]
        ELSE IF t.rlr_wait + 1 >= REDUCE_LR_PATIENCE
        THEN IF RateGreater(t.lr, MinRate)
             THEN [logged EXCEPT !.rlr_wait = 0,
                                 !.lr = RateMax(RateTimesFactor(t.lr), MinRate),
                                 !.lr_reduced_at = Append(@, t.epoch)]
             ELSE [logged EXCEPT !.rlr_wait = @ + 1]
        ELSE [logged EXCEPT !.rlr_wait = @ + 1]

\* History.on_epoch_end: one snapshot per epoch, appended
History_on_epoch_end(t, val_loss, val_accuracy) ==
    [t EXCEPT !.history = Append(@, [epoch        |-> t.epoch,
                                     val_loss     |-> val_loss,
                                     val_accuracy |-> val_accuracy,
                                     lr           |-> t.logs_lr])]

\* one pass of fit's loop: train the epoch, validate (the epoch's logs), run
\* the callbacks on the logs; an
\* exception in a callback leaves fit, and train_model with it
fit_epoch(t, val_loss, val_accuracy, write_ok) ==
    LET trained == [t EXCEPT !.epoch = @ + 1, !.weights = t.epoch + 1,
                             !.logs = Append(@, [val_loss     |-> val_loss,
                                                 val_accuracy |-> val_accuracy])]
        stopped == EarlyStopping_on_epoch_end(trained, val_loss)
        saved   == ModelCheckpoint_on_epoch_end(stopped, val_accuracy, write_ok)
        decayed == ReduceLROnPlateau_on_epoch_end(saved, val_loss)
    IN  IF saved.raised # "none"
        THEN [saved EXCEPT !.pc = "failed"]
        ELSE History_on_epoch_end(decayed, val_loss, val_accuracy)

\* the loop is over: on_train_end, then train_model returns (history, model)
fit_return(t) ==
    LET ended == EarlyStopping_on_train_end(t)
    IN  [ended EXCEPT !.pc = "done",
                      !.returned = <<ended.history, ended.weights>>]

\* model_obj.fit is entered: the callbacks' on_train_begin
TrainBegin(keras) ==
    [pc               |-> "fit",
     keras            |-> keras,
     epoch            |-> 0,
     weights          |-> 0,
     stop_training    |-> FALSE,
     raised           |-> "none",
     history          |-> << >>,
     logs             |-> << >>,
     es_wait          |-> 0,
     es_best          |-> Infinity,
     es_best_weights  |-> << >>,
     es_best_epoch    |-> 0,
     es_stopped_epoch |-> 0,
     ckpt_best        |-> NegInfinity,
     ckpt_file        |-> << >>,
     ckpt_saved_at    |-> << >>,
     lr               |-> InitialRate,
     logs_lr          |-> InitialRate,
     rlr_wait         |-> 0,
     rlr_best         |-> Infinity,
     lr_reduced_at    |-> << >>,
     returned         |-> << >>]

InitTrain ==
    /\ DecideIdle
    /\ ServerIdle
    /\ DataIdle
    /\ \E keras \in KerasVariants : tr = TrainBegin(keras)

Epoch ==
    /\ tr.pc = "fit"
    /\ FitContinues(tr)
    /\ \E val_loss \in LossLevels, val_accuracy \in AccLevels,
          write_ok \in BOOLEAN :
         tr' = fit_epoch(tr, val_loss, val_accuracy, write_ok)
    /\ UNCHANGED <<decide_vars, server_vars, data_vars>>

FitReturns ==
    /\ tr.pc = "fit"
    /\ ~FitContinues(tr)
    /\ tr' = fit_return(tr)
    /\ UNCHANGED <<decide_vars, server_vars, data_vars>>

NextTrain == Epoch \/ FitReturns

\* fit is a synchronous loop: it keeps running until it returns or raises
SpecTrain == InitTrain /\ [][NextTrain]_vars /\ WF_vars(NextTrain)

(***************************************************************************)
(* Properties of the training controller (SpecTrain)                       *)
(***************************************************************************)
\* the earliest epoch among the first k of history h with the lowest
\* validation loss of those k (0 when k = 0)
BestLossEpoch(h, k) ==
    IF k = 0 THEN 0
    ELSE CHOOSE i \in 1..k :
            /\ \A j \in 1..k : h[i].val_loss <= h[j].val_loss
            /\ \A j \in 1..(i - 1) : h[j].val_loss > h[i].val_loss

\* after k epochs, the number of latest epochs in a row that did not improve
\* on the lowest validation loss before them
EpochsWithoutImprovement(h, k) == k - BestLossEpoch(h, k)

TrainOver == tr.pc \in {"done", "failed"}

\* C8 (safety part): no more than EPOCHS epochs are run; the loop never ran
\* an epoch after the validation loss had failed to improve for
\* EARLY_STOPPING_PATIENCE epochs in a row; and when fit returns, the budget
\* is used up or the patience window has just run out.
C8_StopsAtFirstOfBudgetOrPatience ==
    /\ tr.epoch <= EPOCHS
    /\ Len(tr.history) <= tr.epoch
    /\ \A k \in 0..(tr.epoch - 1) :
          EpochsWithoutImprovement(tr.history, k) < EARLY_STOPPING_PATIENCE
    /\ tr.pc = "done" =>
          /\ Len(tr.history) = tr.epoch
          /\ \/ tr.epoch = EPOCHS
             \/ EpochsWithoutImprovement(tr.history, tr.epoch)
                    = EARLY_STOPPING_PATIENCE

\* C8: the epoch loop always terminates, at the first of the epoch budget
\* being used up and the validation loss not improving for
\* EARLY_STOPPING_PATIENCE epochs in a row, and never runs more than EPOCHS
\* epochs.
C8_EpochLoopTerminates ==
    []C8_StopsAtFirstOfBudgetOrPatience /\ <>TrainOver

\* C8 witness: early stopping ended the loop before the budget was used up.
C8_Witness ==
    /\ tr.pc = "done"
    /\ tr.stop_training
    /\ tr.epoch < EPOCHS
    /\ EpochsWithoutImprovement(tr.history, tr.epoch) = EARLY_STOPPING_PATIENCE

\* C9: when early stopping ended the loop, the parameters train_model
\* returns are those of the epoch with the lowest validation loss (the
\* earliest such epoch), not of a later epoch.
C9_EarlyStopReturnsBestLossWeights ==
    (tr.pc = "done" /\ tr.stop_training) =>
        /\ tr.returned[2] = BestLossEpoch(tr.history, Len(tr.history))
        /\ tr.returned[2] = tr.weights

\* C9 witness: early stopping ended the loop and the returned parameters
\* are older than those of the last epoch run.
C9_Witness ==
    /\ tr.pc = "done"
    /\ tr.stop_training
    /\ tr.returned[2] < tr.epoch
    /\ tr.returned[2] = tr.es_best_epoch

\* C10: in the recorded history, the validation loss of the epoch early
\* stopping retains as best is at most that of every later epoch, and below
\* that of every earlier one.
C10_BestLossAtMostLater ==
    (tr.es_best_epoch >= 1 /\ tr.es_best_epoch <= Len(tr.history)) =>
        LET best == tr.history[tr.es_best_epoch].val_loss
        IN  /\ best = tr.es_best
            /\ \A j \in (tr.es_best_epoch + 1)..Len(tr.history) :
                  best <= tr.history[j].val_loss
            /\ \A j \in 1..(tr.es_best_epoch - 1) :
                  best < tr.history[j].val_loss

\* C10 witness: a later epoch tied the best validation loss and a later one
\* was worse, and the earlier epoch was retained.
C10_Witness ==
    /\ tr.pc = "done"
    /\ tr.es_best_epoch >= 1
    /\ \E j, k \in (tr.es_best_epoch + 1)..Len(tr.history) :
          /\ tr.history[j].val_loss = tr.es_best
          /\ tr.history[k].val_loss > tr.es_best

\* the earliest epoch among the first k of history h with the highest
\* validation accuracy of those k (0 when k = 0)
BestAccuracyEpoch(h, k) ==
    IF k = 0 THEN 0
    ELSE CHOOSE i \in 1..k :
            /\ \A j \in 1..k : h[i].val_accuracy >= h[j].val_accuracy
            /\ \A j \in 1..(i - 1) : h[j].val_accuracy < h[i].val_accuracy

\* epoch e of history h reported a validation accuracy above that of every
\* epoch before it
AccuracyRecordAt(h, e) ==
    \A j \in 1..(e - 1) : h[j].val_accuracy < h[e].val_accuracy

\* the checkpoint was written at exactly the epochs of the recorded history
\* that set a validation accuracy record
CheckpointWrittenAtRecords ==
    /\ \A i \in 1..Len(tr.ckpt_saved_at) :
          /\ tr.ckpt_saved_at[i] \in 1..Len(tr.history)
          /\ AccuracyRecordAt(tr.history, tr.ckpt_saved_at[i])
    /\ \A e \in 1..Len(tr.history) :
          AccuracyRecordAt(tr.history, e) =>
             \E i \in 1..Len(tr.ckpt_saved_at) : tr.ckpt_saved_at[i] = e

\* C11: as long as no epoch has failed, the checkpoint has been written at
\* the end of exactly those epochs whose validation accuracy was above that
\* of every earlier epoch, and the checkpoint on disk holds the parameters
\* produced by the earliest epoch with the highest validation accuracy so
\* far.
C11_CheckpointHoldsBestAccuracyEpoch ==
    (tr.pc # "failed") =>
        /\ CheckpointWrittenAtRecords
        /\ Len(tr.history) >= 1 =>
              tr.ckpt_file =
                  <<BestAccuracyEpoch(tr.history, Len(tr.history))>>

\* what does hold of the checkpoint's content: it is the model as it was
\* when ModelCheckpoint ran, which at the epoch early stopping fires can be
\* the restored best-loss parameters
CheckpointHoldsModelAtSave ==
    (tr.pc # "failed" /\ Len(tr.history) >= 1) =>
        LET e == BestAccuracyEpoch(tr.history, Len(tr.history))
        IN  /\ CheckpointWrittenAtRecords
            /\ tr.ckpt_file \in
                  {<<e>>, <<BestLossEpoch(tr.history, Len(tr.history))>>}
            /\ (tr.ckpt_file # <<e>>) =>
                  /\ tr.keras = "restore_when_stopped"
                  /\ tr.es_stopped_epoch = e

\* the learning rate after epoch e of the recorded history: the rate the
\* next epoch ran with, or the optimizer's rate after the last epoch
RateAfter(e) ==
    IF e < Len(tr.history) THEN tr.history[e + 1].lr ELSE tr.lr

RateChangedAt(e) == RateAfter(e) # tr.history[e].lr

\* every change of the learning rate is a multiplication by the factor,
\* floored at the minimum; the rate starts at the configured one and never
\* rises or falls below the minimum
RateChangesAreFlooredHalvings ==
    /\ REDUCE_LR_PATIENCE < EARLY_STOPPING_PATIENCE
    /\ ~RateGreater(MinRate, tr.lr)
    /\ \A e \in 1..Len(tr.history) :
          /\ e = 1 => tr.history[e].lr = InitialRate
          /\ ~RateGreater(MinRate, tr.history[e].lr)
          /\ ~RateGreater(RateAfter(e), tr.history[e].lr)
          /\ RateChangedAt(e) =>
                /\ RateAfter(e) =
                      RateMax(RateTimesFactor(tr.history[e].lr), MinRate)
                /\ \E i \in 1..Len(tr.lr_reduced_at) : tr.lr_reduced_at[i] = e

\* C12 as stated: the learning rate changes only by floored halvings and
\* only at epochs where the validation loss has not improved on its lowest
\* value for at least the plateau window; and once the loss has gone a full
\* window without improving, the rate has been cut within that window
\* unless it is at the minimum already.
C12_RateHalvedOnLossPlateau ==
    /\ RateChangesAreFlooredHalvings
    /\ \A e \in 1..Len(tr.history) :
          /\ RateChangedAt(e) =>
                EpochsWithoutImprovement(tr.history, e) >= REDUCE_LR_PATIENCE
          /\ EpochsWithoutImprovement(tr.history, e) = REDUCE_LR_PATIENCE =>
                \/ tr.history[e].lr = MinRate
                \/ \E j \in (e - REDUCE_LR_PATIENCE + 1)..e : RateChangedAt(j)

\* the best validation loss ReduceLROnPlateau holds after k epochs of
\* history h: a loss replaces it only when lower by more than 0.0001
RECURSIVE PlateauBest(_, _)
PlateauBest(h, k) ==
    IF k = 0 THEN Infinity
    ELSE LET before == PlateauBest(h, k - 1)
         IN  IF h[k].val_loss + REDUCE_LR_MIN_DELTA < before
             THEN h[k].val_loss ELSE before

\* the latest epoch up to e at which ReduceLROnPlateau's window restarted:
\* the loss fell more than 0.0001 below its recorded best, or (before e) the
\* rate was cut; 0 when there is none
PlateauStart(e) ==
    LET restarts == {j \in 1..e :
                        \/ PlateauBest(tr.history, j)
                               # PlateauBest(tr.history, j - 1)
                        \/ j < e /\ RateChangedAt(j)}
    IN  IF restarts = {} THEN 0 ELSE SetMax(restarts)

\* C12, amended: the learning rate changes only by floored halvings, and it
\* is cut at the end of an epoch exactly when it is above the minimum and
\* the validation loss has gone the plateau window without falling more
\* than 0.0001 below the best loss recorded, counted from the last such
\* fall or the last cut.
C12_RateHalvedOnMinDeltaPlateau ==
    /\ RateChangesAreFlooredHalvings
    /\ \A e \in 1..Len(tr.history) :
          RateChangedAt(e) <=>
             /\ RateGreater(tr.history[e].lr, MinRate)
             /\ e - PlateauStart(e) >= REDUCE_LR_PATIENCE

\* C12 witness: the rate was cut twice, the second time onto the floor, and
\* one cut came at an epoch whose loss had just improved by no more than
\* 0.0001.
C12_Witness ==
    /\ tr.pc = "done"
    /\ Len(tr.lr_reduced_at) = 2
    /\ tr.lr = MinRate
    /\ tr.lr # RateTimesFactor(tr.history[Len(tr.history)].lr)
    /\ \E i \in 1..2 :
          EpochsWithoutImprovement(tr.history, tr.lr_reduced_at[i])
              < REDUCE_LR_PATIENCE

\* C19: a failed checkpoint write never ends training: no run is left by an
\* exception, and a finished run has returned its model.
C19_TrainingSurvivesCheckpointFailure ==
    /\ tr.pc # "failed"
    /\ TrainOver => tr.returned # << >>

\* what the code does on a failed checkpoint write: the exception leaves
\* fit in the epoch of the failure, and train_model returns nothing
CheckpointFailureAborts ==
    (tr.raised # "none") =>
        /\ tr.pc = "failed"
        /\ tr.returned = << >>
        /\ Len(tr.history) = tr.epoch - 1

\* C20: however the epoch loop ends, train_model has yielded a history with
\* exactly one snapshot per epoch run, in epoch order.
C20_HistoryAlwaysReturned ==
    TrainOver =>
        /\ tr.returned # << >>
        /\ Len(tr.returned[1]) = tr.epoch
        /\ \A i \in 1..Len(tr.returned[1]) : tr.returned[1][i].epoch = i

\* the part of C20 that holds: when fit returns, by budget or early stop,
\* the history has one snapshot per epoch run, in epoch order
HistoryCompleteWhenFitReturns ==
    (tr.pc = "done") =>
        /\ tr.returned[1] = tr.history
        /\ Len(tr.history) = tr.epoch
        /\ \A i \in 1..Len(tr.history) : tr.history[i].epoch = i

\* and the history is append-only while fit runs
HistoryAppendOnly ==
    [][/\ Len(tr'.history) >= Len(tr.history)
       /\ SubSeq(tr'.history, 1, Len(tr.history)) = tr.history]_vars

\* ReduceLROnPlateau replayed on the validation losses of the first k
\* epoch logs alone: its best loss, its wait, the rate, and the epochs at
\* which the rate is cut
RECURSIVE PlateauReplay(_, _)
PlateauReplay(l, k) ==
    IF k = 0
    THEN [best |-> Infinity, wait |-> 0, rate |-> InitialRate, cuts |-> {}]
    ELSE LET r == PlateauReplay(l, k - 1)
         IN  IF l[k].val_loss + REDUCE_LR_MIN_DELTA < r.best
             THEN [r EXCEPT !.best = l[k].val_loss, !.wait = 0]
             ELSE IF r.wait + 1 >= REDUCE_LR_PATIENCE
                     /\ RateGreater(r.rate, MinRate)
             THEN [r EXCEPT !.wait = 0,
                            !.rate = RateMax(RateTimesFactor(r.rate), MinRate),
                            !.cuts = @ \cup {k}]
             ELSE [r EXCEPT !.wait = @ + 1]

\* the epochs among the first k logs whose validation accuracy is above
\* that of every epoch before
AccuracyRecords(l, k) ==
    {e \in 1..k : \A j \in 1..(e - 1) : l[j].val_accuracy < l[e].val_accuracy}

\* the epochs at which the learning-rate decay fired, and those at which
\* the checkpoint write fired (the write that raised included)
DecayFiredAt == {tr.lr_reduced_at[i] : i \in 1..Len(tr.lr_reduced_at)}
CheckpointFiredAt ==
    {tr.ckpt_saved_at[i] : i \in 1..Len(tr.ckpt_saved_at)}
        \cup (IF tr.raised # "none" THEN {tr.epoch} ELSE {})

\* C21: in every epoch run, the checkpoint write fires exactly when the
\* validation accuracies so far call for it and the learning-rate decay
\* fires exactly when the validation losses so far call for it, whatever
\* the other one does in that epoch or did before.
C21_CheckpointAndDecayIndependent ==
    /\ CheckpointFiredAt = AccuracyRecords(tr.logs, tr.epoch)
    /\ DecayFiredAt = PlateauReplay(tr.logs, tr.epoch).cuts

\* the independence that does hold: as long as no checkpoint write has
\* raised
IndependentUnlessWriteFails ==
    (tr.raised = "none") => C21_CheckpointAndDecayIndependent

\* both fire in one epoch
BothFireInOneEpoch == DecayFiredAt \cap CheckpointFiredAt # {}

\* C22: early stopping and the checkpoint each track their own optimum:
\* as long as no epoch has failed, early stopping's best epoch is the
\* earliest epoch with the lowest validation loss and the checkpoint was
\* last written at the earliest epoch with the highest validation accuracy;
\* and a run that early stopping ended returns the parameters of early
\* stopping's best epoch, whatever epoch the checkpoint names.
C22_TwoSeparateOptima ==
    (tr.raised = "none" /\ Len(tr.history) >= 1) =>
        /\ tr.es_best_epoch = BestLossEpoch(tr.history, Len(tr.history))
        /\ tr.ckpt_saved_at # << >>
        /\ tr.ckpt_saved_at[Len(tr.ckpt_saved_at)]
              = BestAccuracyEpoch(tr.history, Len(tr.history))
        /\ (tr.pc = "done" /\ tr.stop_training) =>
              tr.returned[2] = tr.es_best_epoch

\* C22 witness: a finished run in which the two optima are different
\* epochs, the checkpoint holds the parameters of its epoch, and the model
\* train_model returns is another one.
C22_Witness ==
    /\ tr.pc = "done"
    /\ tr.es_best_epoch # BestAccuracyEpoch(tr.history, Len(tr.history))
    /\ tr.ckpt_file = <<BestAccuracyEpoch(tr.history, Len(tr.history))>>
    /\ tr.returned[2] = tr.es_best_epoch
    /\ tr.returned[2] # tr.ckpt_file[1]

(***************************************************************************)
(* The two-stage stratified split of prepare_dataset                       *)
(* (data_preprocessing.py 199-246), with scikit-learn's train_test_split   *)
(* as it runs for a float test_size and stratify=y.                        *)
(*                                                                         *)
(* An assembled dataset of g genuine and f forged images is the positions  *)
(* 1..g+f of X: np.concatenate puts the genuine pool first.  The random    *)
(* generator's permutations are arbitrary, so a split is any choice of     *)
(* members with the class counts scikit-learn computes.  Fractions are in  *)
(* hundredths.                                                             *)
(***************************************************************************)
\* the largest pool of either class in a dataset that is split
MaxPerClass == 7

\* load_images_from_folder(genuine_path, label=1)
GENUINE_LABEL == 1
\* load_images_from_folder(forged_path, label=0)
FORGED_LABEL == 0
Classes == {FORGED_LABEL, GENUINE_LABEL}

Percent == 100
\* config.VALIDATION_SPLIT = 0.15
VALIDATION_SPLIT == 15
\* config.TEST_SPLIT = 0.15
TEST_SPLIT == 15
\* test_size=0.5 of the second train_test_split
SECOND_TEST_SIZE == 50

Ceil(num, den) == (num + den - 1) \div den

\* y = np.concatenate([genuine_labels, forged_labels])
LabelOf(g, p) == IF p <= g THEN GENUINE_LABEL ELSE FORGED_LABEL

ClassMembers(g, S, c) == {p \in S : LabelOf(g, p) = c}

\* np.bincount over the labels of the samples S
class_counts(g, S) == [c \in Classes |-> Cardinality(ClassMembers(g, S, c))]

Total(counts) == counts[FORGED_LABEL] + counts[GENUINE_LABEL]

approximate_mode_unstratified(counts, n_draws) ==
    {n_i \in [Classes -> 0..n_draws] :
        /\ Total(n_i) = n_draws
        /\ \A c \in Classes : n_i[c] <= counts[c]}

\* sklearn.utils._approximate_mode: the class counts of a draw of n_draws
\* samples, as close to the class proportions as whole numbers allow; the
\* classes that get the extra sample are those with the largest remainders,
\* ties broken by the random generator
approximate_mode(counts, n_draws) ==
    LET total     == Total(counts)
        floored   == [c \in Classes |-> (counts[c] * n_draws) \div total]
        remainder == [c \in Classes |-> (counts[c] * n_draws) % total]
        need_to_add == n_draws - Total(floored)
        choices == {A \in SUBSET Classes :
                       /\ Cardinality(A) = need_to_add
                       /\ \A c \in A, d \in Classes \ A :
                             remainder[c] >= remainder[d]}
    IN  {[c \in Classes |-> floored[c] + IF c \in A THEN 1 ELSE 0] :
            A \in choices}

\* _validate_shuffle_split with train_size=None: n_test = ceil(test_size * n)
n_test_of(n, test_size) == Ceil(test_size * n, Percent)
n_train_of(n, test_size) == n - n_test_of(n, test_size)

\* the ValueErrors of _validate_shuffle_split and of
\* StratifiedShuffleSplit._iter_indices
SplitRaises(counts, test_size) ==
    LET n         == Total(counts)
        present   == {c \in Classes : counts[c] > 0}
        n_classes == Cardinality(present)
    IN  \/ n_train_of(n, test_size) = 0
        \/ \E c \in present : counts[c] < 2
        \/ n_train_of(n, test_size) < n_classes
        \/ n_test_of(n, test_size) < n_classes

ValueError == [raised |-> TRUE]

\* train_test_split(X[S], y[S], test_size=..., random_state=..., stratify=y[S])
\* on the samples S: every outcome the random generator can give
train_test_split(g, S, test_size) ==
    LET counts == class_counts(g, S)
        n      == Cardinality(S)
    IN  IF SplitRaises(counts, test_size)
        THEN {ValueError}
        ELSE UNION UNION
             {{{[raised |-> FALSE, train |-> A, test |-> B] :
                  B \in {T \in SUBSET (S \ A) :
                            class_counts(g, T) = t_i}} :
                t_i \in approximate_mode(
                            [c \in Classes |-> counts[c] - n_i[c]],
                            n_test_of(n, test_size)),
                A \in {T \in SUBSET S : class_counts(g, T) = n_i}} :
              n_i \in approximate_mode(counts, n_train_of(n, test_size))}

Positions(t) == 1..(t.g + t.f)

SecondSplitInputAll(t) == Positions(t)

\* X_temp, y_temp: what the second train_test_split is given
SecondSplitInput(t) == t.temp

\* the dataset is assembled: both pools are non-empty (the check of
\* data_preprocessing.py 188), nothing is split yet
Assembled(g, f) ==
    [pc       |-> "assembled",
     g        |-> g,
     f        |-> f,
     train    |-> {},
     temp     |-> {},
     val      |-> {},
     test     |-> {},
     relisted |-> << >>]

InitSplit ==
    /\ DecideIdle
    /\ ServerIdle
    /\ TrainIdle
    /\ ProbeIdle
    /\ AssembleIdle
    /\ EvaluateIdle
    /\ \E g \in 1..MaxPerClass, f \in 1..MaxPerClass : sp = Assembled(g, f)

\* X_train, X_temp, ... = train_test_split(X, y, test_size=0.30, ...)
FirstSplit ==
    /\ sp.pc = "assembled"
    /\ \E r \in train_test_split(sp.g, Positions(sp),
                                 VALIDATION_SPLIT + TEST_SPLIT) :
          sp' = IF r.raised
                THEN [sp EXCEPT !.pc = "raised"]
                ELSE [sp EXCEPT !.pc = "first_split",
                                !.train = r.train,
                                !.temp = r.test]
    /\ UNCHANGED <<decide_vars, server_vars, tr, asm, ev, probe>>

\* X_val, X_test, ... = train_test_split(X_temp, y_temp, test_size=0.5, ...)
\* and the return of the three splits
SecondSplit ==
    /\ sp.pc = "first_split"
    /\ \E r \in train_test_split(sp.g, SecondSplitInput(sp),
                                 SECOND_TEST_SIZE) :
          sp' = IF r.raised
                THEN [sp EXCEPT !.pc = "raised"]
                ELSE [sp EXCEPT !.pc = "returned",
                                !.val = r.train,
                                !.test = r.test]
    /\ UNCHANGED <<decide_vars, server_vars, tr, asm, ev, probe>>

\* the listings os.listdir can give a second run over the same directory
\* contents: the order is arbitrary; here the same order or one with two
\* files of one pool exchanged.  relisted[p] is the position a second run
\* gives the file the first run had at position p.
Relistings(t) ==
    {[p \in Positions(t) |-> IF p = a THEN b ELSE IF p = b THEN a ELSE p] :
        <<a, b>> \in {ab \in Positions(t) \X Positions(t) :
                         /\ ab[1] <= ab[2]
                         /\ LabelOf(t.g, ab[1]) = LabelOf(t.g, ab[2])}}

\* prepare_dataset runs again on the same directory contents with the same
\* random_state: the same labels in the same layout give the same split of
\* the positions; the files are at the positions this run's listing gives
\* them
SecondRun ==
    /\ sp.pc = "returned"
    /\ \E listing \in Relistings(sp) :
          sp' = [sp EXCEPT !.pc = "rerun", !.relisted = listing]
    /\ UNCHANGED <<decide_vars, server_vars, tr, asm, ev, probe>>

NextSplit == FirstSplit \/ SecondSplit \/ SecondRun

SpecSplit == InitSplit /\ [][NextSplit]_vars

(***************************************************************************)
(* Properties of the split (SpecSplit)                                     *)
(***************************************************************************)
SplitsReturned == sp.pc \in {"returned", "rerun"}

\* C13: whenever prepare_dataset returns its three splits, they are
\* pairwise disjoint, their union is the whole assembled dataset, and their
\* sizes sum to its size.
C13_SplitsPartitionDataset ==
    SplitsReturned =>
        /\ sp.train \cap sp.val = {}
        /\ sp.train \cap sp.test = {}
        /\ sp.val \cap sp.test = {}
        /\ sp.train \cup sp.val \cup sp.test = Positions(sp)
        /\ Cardinality(sp.train) + Cardinality(sp.val)
              + Cardinality(sp.test) = sp.g + sp.f

\* C13 witness: a dataset was split into three non-empty parts.
C13_Witness ==
    /\ sp.pc = "returned"
    /\ sp.train # {} /\ sp.val # {} /\ sp.test # {}
    /\ sp.g # sp.f

\* the number of samples by which class c in the part S departs from the
\* dataset's proportion of c is at most one: |c(S) - |S| * c(all)/n| <= 1,
\* multiplied through by n
WithinOneSample(t, S, c) ==
    LET n == t.g + t.f
    IN  Abs(Cardinality(ClassMembers(t.g, S, c)) * n
            - Cardinality(S) * Cardinality(ClassMembers(t.g, Positions(t), c)))
          <= n

\* C14: in each of train, validation and test, the number of genuine and
\* the number of forged samples is within one sample of the share that the
\* dataset's overall genuine-to-forged ratio gives a part of that size.
C14_SplitsKeepClassRatio ==
    SplitsReturned =>
        \A S \in {sp.train, sp.val, sp.test}, c \in Classes :
            WithinOneSample(sp, S, c)

\* C14 witness: a split whose parts cannot all have the exact ratio, and
\* one of them is off it by a fraction of a sample.
C14_Witness ==
    /\ sp.pc = "returned"
    /\ \E S \in {sp.train, sp.val, sp.test} :
          Cardinality(ClassMembers(sp.g, S, GENUINE_LABEL)) * (sp.g + sp.f)
             # Cardinality(S) * sp.g

\* every test split that is returned holds both classes
TestSplitHasBothClasses ==
    SplitsReturned =>
        \A c \in Classes : ClassMembers(sp.g, sp.test, c) # {}

SplitOf(t, p) ==
    IF p \in t.train THEN "train"
    ELSE IF p \in t.val THEN "validation"
    ELSE "test"

\* C15: a second run with the same seed on the same directory contents
\* puts every file into the split the first run put it into.
C15_SameSplitInBothRuns ==
    (sp.pc = "rerun") =>
        \A p \in Positions(sp) : SplitOf(sp, sp.relisted[p]) = SplitOf(sp, p)

(***************************************************************************)
(* A run of the training pipeline, train.py's main: prepare_dataset scans  *)
(* the Dataset directory user by user, combines the pools and splits them; *)
(* main then builds, trains, saves and evaluates the model.                *)
(*                                                                         *)
(* For each user and category the directory has no folder under any of     *)
(* the probed names, or a folder with some files that carry an image       *)
(* extension: `images' of them decode, `bad' of them do not (cv2.imread    *)
(* returns None).  Files without an image extension are filtered out by    *)
(* name and are left out.  The split is followed by its class counts only. *)
(***************************************************************************)
\* the most decodable images in one folder
MaxImages == 5
BadCounts == {0, 1}
Users == {1, 2}

NoFolder == [exists |-> FALSE, images |-> 0, bad |-> 0]
Folders ==
    {NoFolder} \cup [exists : {TRUE}, images : 0..MaxImages, bad : BadCounts]
Directories == [Users -> [genuine : Folders, forged : Folders]]

load_images_from_folder_all_or_nothing(user, category, folder, label) ==
    IF ~folder.exists \/ folder.bad > 0 THEN << >>
    ELSE [k \in 1..folder.images |->
             [user |-> user, category |-> category, file |-> k,
              label |-> label]]

\* load_images_from_folder: the decoded images of the folder, each with the
\* label of the call; a file that does not decode is skipped with a warning
load_images_from_folder(user, category, folder, label) ==
    IF ~folder.exists THEN << >>
    ELSE [k \in 1..folder.images |->
             [user |-> user, category |-> category, file |-> k,
              label |-> label]]

PoolEmptyNever(pool) == FALSE

\* len(genuine_images) == 0, len(forged_images) == 0
PoolEmpty(pool) == Len(pool) = 0

\* the class counts of the pools, as the split sees them
PoolCounts(t) ==
    [c \in Classes |-> IF c = GENUINE_LABEL THEN Len(t.genuine)
                       ELSE Len(t.forged)]

\* the two train_test_split calls on class counts: ValueError, or the class
\* counts of train, validation and test
SplitCounts(counts) ==
    IF SplitRaises(counts, VALIDATION_SPLIT + TEST_SPLIT)
    THEN {ValueError}
    ELSE UNION
         {LET temp == [c \in Classes |-> counts[c] - n_i[c]]
          IN  IF SplitRaises(temp, SECOND_TEST_SIZE)
              THEN {ValueError}
              ELSE {[raised |-> FALSE, train |-> n_i, val |-> v_i,
                     test |-> [c \in Classes |-> temp[c] - v_i[c]]] :
                      v_i \in approximate_mode(temp,
                                 n_train_of(Total(temp), SECOND_TEST_SIZE))} :
            n_i \in approximate_mode(counts,
                       n_train_of(Total(counts),
                                  VALIDATION_SPLIT + TEST_SPLIT))}

\* main is entered on a Dataset directory
MainBegin(dir) ==
    [pc        |-> "scan",
     dir       |-> dir,
     scanned   |-> {},
     genuine   |-> << >>,
     forged    |-> << >>,
     prepared  |-> << >>,
     built     |-> FALSE,
     trained   |-> FALSE,
     saved     |-> FALSE,
     evaluated |-> FALSE]

InitAssemble ==
    /\ DecideIdle
    /\ ServerIdle
    /\ TrainIdle
    /\ ProbeIdle
    /\ SplitIdle
    /\ EvaluateIdle
    /\ \E dir \in Directories : asm = MainBegin(dir)

\* one pass of prepare_dataset's loop over the user folders, which come in
\* the order os.listdir gives them: load the user's genuine folder with
\* label 1 and forged folder with label 0, where they exist
ScanUser ==
    /\ asm.pc = "scan"
    /\ \E user \in Users \ asm.scanned :
          asm' = [asm EXCEPT
                    !.scanned = @ \cup {user},
                    !.genuine = @ \o load_images_from_folder(
                                        user, "genuine",
                                        asm.dir[user].genuine, GENUINE_LABEL),
                    !.forged  = @ \o load_images_from_folder(
                                        user, "forged",
                                        asm.dir[user].forged, FORGED_LABEL)]
    /\ UNCHANGED <<decide_vars, server_vars, tr, sp, ev, probe>>

\* the rest of prepare_dataset: return None, None, None when a pool is
\* empty; otherwise combine the pools and split twice, which returns the
\* three splits or raises
Prepare ==
    /\ asm.pc = "scan"
    /\ asm.scanned = Users
    /\ IF PoolEmpty(asm.genuine) \/ PoolEmpty(asm.forged)
       THEN asm' = [asm EXCEPT !.pc = "returned_none"]
       ELSE \E r \in SplitCounts(PoolCounts(asm)) :
               asm' = IF r.raised
                      THEN [asm EXCEPT !.pc = "raised"]
                      ELSE [asm EXCEPT !.pc = "returned_splits",
                                       !.prepared = <<r>>]
    /\ UNCHANGED <<decide_vars, server_vars, tr, sp, ev, probe>>

\* main: `if train_data is None: ... return'
MainExitsWithoutData ==
    /\ asm.pc = "returned_none"
    /\ asm' = [asm EXCEPT !.pc = "exited"]
    /\ UNCHANGED <<decide_vars, server_vars, tr, sp, ev, probe>>

\* main, step 2: model.build_model()
BuildModel ==
    /\ asm.pc = "returned_splits"
    /\ asm' = [asm EXCEPT !.pc = "built", !.built = TRUE]
    /\ UNCHANGED <<decide_vars, server_vars, tr, sp, ev, probe>>

\* main, step 3: train_model returns, or an exception leaves it and main
TrainModel ==
    /\ asm.pc = "built"
    /\ \E returns \in BOOLEAN :
          asm' = IF returns
                 THEN [asm EXCEPT !.pc = "trained", !.trained = TRUE]
                 ELSE [asm EXCEPT !.pc = "raised"]
    /\ UNCHANGED <<decide_vars, server_vars, tr, sp, ev, probe>>

\* main, step 4: model.save_model
SaveModel ==
    /\ asm.pc = "trained"
    /\ asm' = [asm EXCEPT !.pc = "saved", !.saved = TRUE]
    /\ UNCHANGED <<decide_vars, server_vars, tr, sp, ev, probe>>

\* main, step 5: evaluate_model
EvaluateModel ==
    /\ asm.pc = "saved"
    /\ asm' = [asm EXCEPT !.pc = "evaluated", !.evaluated = TRUE]
    /\ UNCHANGED <<decide_vars, server_vars, tr, sp, ev, probe>>

NextAssemble ==
    \/ ScanUser
    \/ Prepare
    \/ MainExitsWithoutData
    \/ BuildModel
    \/ TrainModel
    \/ SaveModel
    \/ EvaluateModel

SpecAssemble == InitAssemble /\ [][NextAssemble]_vars

(***************************************************************************)
(* Properties of the pipeline run (SpecAssemble)                           *)
(***************************************************************************)
ScanOver == asm.pc # "scan" \/ asm.scanned = Users

SeqRange(q) == {q[i] : i \in 1..Len(q)}

\* C16: once every user folder is scanned with the genuine or the forged
\* pool empty, prepare_dataset returns no split, main returns, and no model
\* is built, trained, saved or evaluated.
C16_EmptyPoolStopsPipeline ==
    (ScanOver /\ (Len(asm.genuine) = 0 \/ Len(asm.forged) = 0)) =>
        /\ asm.pc \in {"scan", "returned_none", "exited"}
        /\ asm.prepared = << >>
        /\ ~asm.built /\ ~asm.trained /\ ~asm.saved /\ ~asm.evaluated

\* C16 witness: main has returned on a directory that has forged images
\* but no genuine image that decodes.
C16_Witness ==
    /\ asm.pc = "exited"
    /\ Len(asm.genuine) = 0
    /\ Len(asm.forged) > 0
    /\ \E user \in Users : asm.dir[user].genuine.exists

\* the images of the directory that decode, with the label of their
\* category
DecodableImages(dir, users) ==
    {[user |-> user, category |-> category, file |-> k,
      label |-> IF category = "genuine" THEN GENUINE_LABEL ELSE FORGED_LABEL] :
        user \in users, category \in {"genuine", "forged"},
        k \in 1..MaxImages} \cap
    {x \in [user : users, category : {"genuine", "forged"},
            file : 1..MaxImages, label : Classes] :
        /\ dir[x.user][x.category].exists
        /\ x.file <= dir[x.user][x.category].images}

\* C17: the scan never aborts, and the samples loaded from the users
\* scanned so far are exactly the images that decode in the folders that
\* exist, each once, genuine ones with label 1 in the genuine pool and
\* forged ones with label 0 in the forged pool.
C17_ScanSkipsMissingAndUndecodable ==
    /\ asm.pc = "raised" =>
          /\ asm.scanned = Users
          /\ Len(asm.genuine) > 0 /\ Len(asm.forged) > 0
    /\ SeqRange(asm.genuine) \cup SeqRange(asm.forged)
          = DecodableImages(asm.dir, asm.scanned)
    /\ Cardinality(SeqRange(asm.genuine)) = Len(asm.genuine)
    /\ Cardinality(SeqRange(asm.forged)) = Len(asm.forged)
    /\ \A x \in SeqRange(asm.genuine) :
          x.category = "genuine" /\ x.label = GENUINE_LABEL
    /\ \A x \in SeqRange(asm.forged) :
          x.category = "forged" /\ x.label = FORGED_LABEL

\* C17 witness: a dataset was assembled and split although one user has no
\* genuine folder, and a folder of the other user holds both a file that
\* does not decode and images that were loaded.
C17_Witness ==
    /\ asm.pc = "returned_splits"
    /\ \E user \in Users : ~asm.dir[user].genuine.exists
    /\ \E user \in Users, category \in {"genuine", "forged"} :
          /\ asm.dir[user][category].bad > 0
          /\ \E x \in SeqRange(asm.genuine) \cup SeqRange(asm.forged) :
                x.user = user /\ x.category = category

(***************************************************************************)
(* evaluate_model on a test split (train.py 247-264): the classifier's     *)
(* probabilities, the hard predictions, scikit-learn's confusion_matrix    *)
(* and its unpacking.  A test split that prepare_dataset returns holds     *)
(* both classes (TestSplitHasBothClasses).                                 *)
(***************************************************************************)
\* the largest test split evaluated
MaxTestSize == 4

\* the probabilities the classifier can give a test sample: below, at and
\* above the threshold
EvalProbs == {0, CONFIDENCE_THRESHOLD, One}

\* the label vectors of the test splits: both classes occur
TestLabelVectors ==
    UNION {{y \in [1..n -> Classes] : \A c \in Classes : \E k \in 1..n : y[k] = c} :
             n \in 2..MaxTestSize}

\* (y_pred_prob > config.CONFIDENCE_THRESHOLD).astype(int)
HardPrediction(prob) == IF prob > CONFIDENCE_THRESHOLD THEN 1 ELSE 0

CellCountByPrediction(y_true, y_pred, i, j) ==
    Cardinality({k \in 1..Len(y_pred) : y_pred[k] = j})

\* one cell of confusion_matrix(y_true, y_pred): the samples whose true
\* label is i and whose predicted label is j
CellCount(y_true, y_pred, i, j) ==
    Cardinality({k \in 1..Len(y_true) : y_true[k] = i /\ y_pred[k] = j})

\* the labels in ascending order, as confusion_matrix orders rows and
\* columns
SortedLabels(L) ==
    CHOOSE q \in [1..Cardinality(L) -> L] :
        \A a, b \in 1..Cardinality(L) : a < b => q[a] < q[b]

\* confusion_matrix(y_true, y_pred).ravel(): the matrix over the labels
\* that occur in either vector, row by row
confusion_matrix_ravel(y_true, y_pred) ==
    LET L == {y_true[k] : k \in 1..Len(y_true)}
                \cup {y_pred[k] : k \in 1..Len(y_pred)}
        m == Cardinality(L)
        q == SortedLabels(L)
    IN  [x \in 1..(m * m) |->
            CellCount(y_true, y_pred,
                      q[((x - 1) \div m) + 1], q[((x - 1) % m) + 1])]

EvaluateBegin(y_test) ==
    [pc          |-> "predict",
     y_test      |-> y_test,
     y_pred_prob |-> << >>,
     y_pred      |-> << >>,
     cells       |-> << >>]

InitEvaluate ==
    /\ DecideIdle
    /\ ServerIdle
    /\ TrainIdle
    /\ ProbeIdle
    /\ AssembleIdle
    /\ SplitIdle
    /\ \E y_test \in TestLabelVectors : ev = EvaluateBegin(y_test)

\* y_pred_prob = model_obj.predict(X_test); y_pred = (y_pred_prob > ...)
EvalPredict ==
    /\ ev.pc = "predict"
    /\ \E probs \in [1..Len(ev.y_test) -> EvalProbs] :
          ev' = [ev EXCEPT
                   !.pc = "confusion_matrix",
                   !.y_pred_prob = probs,
                   !.y_pred = [k \in 1..Len(probs) |->
                                  HardPrediction(probs[k])]]
    /\ UNCHANGED <<decide_vars, server_vars, tr, asm, sp, probe>>

\* cm = confusion_matrix(y_test, y_pred); tn, fp, fn, tp = cm.ravel()
EvalConfusionMatrix ==
    /\ ev.pc = "confusion_matrix"
    /\ LET raveled == confusion_matrix_ravel(ev.y_test, ev.y_pred)
       IN  ev' = IF Len(raveled) = 4
                 THEN [ev EXCEPT !.pc = "done",
                                 !.cells = [tn |-> raveled[1],
                                            fp |-> raveled[2],
                                            fn |-> raveled[3],
                                            tp |-> raveled[4]]]
                 ELSE [ev EXCEPT !.pc = "raised"]
    /\ UNCHANGED <<decide_vars, server_vars, tr, asm, sp, probe>>

NextEvaluate == EvalPredict \/ EvalConfusionMatrix

SpecEvaluate == InitEvaluate /\ [][NextEvaluate]_vars

(***************************************************************************)
(* Properties of the evaluator (SpecEvaluate)                              *)
(***************************************************************************)
\* the test samples with true label `actual' that the evaluator predicts
\* as genuine (or, with genuine = FALSE, as forged)
TestSamples(actual, genuine) ==
    {k \in 1..Len(ev.y_test) :
        /\ ev.y_test[k] = actual
        /\ (ev.y_pred_prob[k] > CONFIDENCE_THRESHOLD) = genuine}

\* C18: the confusion matrix is always produced; its rows are the actual
\* classes and its columns the predicted ones, forged before genuine; every
\* test sample is counted in exactly one cell, and TN + FP + FN + TP is the
\* size of the test split.
C18_ConfusionMatrixCountsEachSampleOnce ==
    /\ ev.pc # "raised"
    /\ ev.pc = "done" =>
          /\ ev.cells.tn = Cardinality(TestSamples(FORGED_LABEL, FALSE))
          /\ ev.cells.fp = Cardinality(TestSamples(FORGED_LABEL, TRUE))
          /\ ev.cells.fn = Cardinality(TestSamples(GENUINE_LABEL, FALSE))
          /\ ev.cells.tp = Cardinality(TestSamples(GENUINE_LABEL, TRUE))
          /\ ev.cells.tn + ev.cells.fp + ev.cells.fn + ev.cells.tp
                = Len(ev.y_test)

\* C18 witness: a test split with a sample in each of the four cells.
C18_Witness ==
    /\ ev.pc = "done"
    /\ ev.cells.tn > 0 /\ ev.cells.fp > 0
    /\ ev.cells.fn > 0 /\ ev.cells.tp > 0

\* C26: every test sample is predicted genuine by evaluate_model exactly when
\* predict and verify classify its probability as GENUINE, the probability
\* equal to the threshold included.
C26_EvaluatorAgreesWithServing ==
    \A k \in 1..Len(ev.y_pred) :
        (ev.y_pred[k] = GENUINE_LABEL)
            <=> (ClassName(IsGenuine(ev.y_pred_prob[k])) = "GENUINE")

\* the two rules part only at the threshold itself
EvaluatorAgreesOffThreshold ==
    \A k \in 1..Len(ev.y_pred) :
        ev.y_pred_prob[k] # CONFIDENCE_THRESHOLD =>
            ((ev.y_pred[k] = GENUINE_LABEL)
                <=> (ClassName(IsGenuine(ev.y_pred_prob[k])) = "GENUINE"))

\* at the threshold the evaluator predicts forged where the server says GENUINE
ThresholdSamplePredictedForged ==
    \E k \in 1..Len(ev.y_pred) :
        /\ ev.y_pred_prob[k] = CONFIDENCE_THRESHOLD
        /\ ev.y_pred[k] = FORGED_LABEL
        /\ ClassName(IsGenuine(ev.y_pred_prob[k])) = "GENUINE"

(***************************************************************************)
(* prepare_dataset's probing of one user folder for its genuine and its    *)
(* forged folder (data_preprocessing.py 115-163).  The user folder holds   *)
(* any of the directories the code asks for; a directory `x/images' is     *)
(* there only with its parent `x'.                                         *)
(***************************************************************************)
\* the paths tried for the genuine folder, in the order of the code
GenuineFolderNames == <<"genuine/images", "genuine_images", "genuine">>

\* the paths tried for the forged folder, in the order of the code
ForgedFolderNames ==
    <<"skilled forgery/images", "skilled_forgery/images",
      "skilled_forgery_images", "forged_images", "forged/images",
      "skilled forgery", "skilled_forgery">>

\* `x/images' and its parent directory
Nested ==
    {<<"genuine/images", "genuine">>,
     <<"skilled forgery/images", "skilled forgery">>,
     <<"skilled_forgery/images", "skilled_forgery">>,
     <<"forged/images", "forged">>}

UserFolderPaths ==
    {GenuineFolderNames[i] : i \in 1..Len(GenuineFolderNames)}
        \cup {ForgedFolderNames[i] : i \in 1..Len(ForgedFolderNames)}
        \cup {"forged"}

\* the contents a user folder can have
UserFolders ==
    {E \in SUBSET UserFolderPaths : \A n \in Nested : n[1] \in E => n[2] \in E}

ProbeAlwaysNext(names, k, existing) == names[k]

\* the chain `path = names[1]; if not os.path.exists(path): path = names[2];
\* ...' after its first k assignments
RECURSIVE Probe(_, _, _)
Probe(names, k, existing) ==
    IF k = 1 THEN names[1]
    ELSE LET path == Probe(names, k - 1, existing)
         IN  IF path \notin existing THEN names[k] ELSE path

\* `if os.path.exists(path): load_images_from_folder(path, ...)', else the
\* warning: the folder loaded from, or none
LoadedFrom(path, existing) == IF path \in existing THEN <<path>> ELSE << >>

ProbeBegin(existing) ==
    [pc                  |-> "probe_genuine",
     existing            |-> existing,
     genuine_path        |-> "",
     forged_path         |-> "",
     genuine_loaded_from |-> << >>,
     forged_loaded_from  |-> << >>]

InitProbe ==
    /\ DecideIdle
    /\ ServerIdle
    /\ TrainIdle
    /\ AssembleIdle
    /\ SplitIdle
    /\ EvaluateIdle
    /\ \E existing \in UserFolders : probe = ProbeBegin(existing)

\* genuine_path = ... (116-120)
ProbeGenuine ==
    /\ probe.pc = "probe_genuine"
    /\ probe' = [probe EXCEPT
                   !.pc = "probe_forged",
                   !.genuine_path = Probe(GenuineFolderNames,
                                          Len(GenuineFolderNames),
                                          probe.existing)]
    /\ UNCHANGED <<decide_vars, server_vars, tr, asm, sp, ev>>

\* forged_path = ... (124-136)
ProbeForged ==
    /\ probe.pc = "probe_forged"
    /\ probe' = [probe EXCEPT
                   !.pc = "load_genuine",
                   !.forged_path = Probe(ForgedFolderNames,
                                         Len(ForgedFolderNames),
                                         probe.existing)]
    /\ UNCHANGED <<decide_vars, server_vars, tr, asm, sp, ev>>

\* load the genuine folder if it exists (139-149)
LoadGenuine ==
    /\ probe.pc = "load_genuine"
    /\ probe' = [probe EXCEPT
                   !.pc = "load_forged",
                   !.genuine_loaded_from =
                        LoadedFrom(probe.genuine_path, probe.existing)]
    /\ UNCHANGED <<decide_vars, server_vars, tr, asm, sp, ev>>

\* load the forged folder if it exists (152-163)
LoadForged ==
    /\ probe.pc = "load_forged"
    /\ probe' = [probe EXCEPT
                   !.pc = "done",
                   !.forged_loaded_from =
                        LoadedFrom(probe.forged_path, probe.existing)]
    /\ UNCHANGED <<decide_vars, server_vars, tr, asm, sp, ev>>

NextProbe == ProbeGenuine \/ ProbeForged \/ LoadGenuine \/ LoadForged

SpecProbe == InitProbe /\ [][NextProbe]_vars

(***************************************************************************)
(* Properties of the folder probing (SpecProbe)                            *)
(***************************************************************************)
\* the first path of the order `names' that exists, or none
FirstExisting(names, existing) ==
    LET hits == {i \in 1..Len(names) : names[i] \in existing}
    IN  IF hits = {} THEN << >> ELSE <<names[SetMin(hits)]>>

\* C23: for a user, the genuine images are loaded from the first of
\* genuine/images, genuine_images, genuine that exists, and the forged ones
\* from the first of 'skilled forgery'/images, skilled_forgery/images,
\* skilled_forgery_images, forged_images, forged/images, 'skilled forgery',
\* skilled_forgery that exists; a category none of whose folders exists is
\* not loaded.
C23_LoadsFromFirstExistingFolder ==
    (probe.pc = "done") =>
        /\ probe.genuine_loaded_from =
              FirstExisting(<<"genuine/images", "genuine_images", "genuine">>,
                            probe.existing)
        /\ probe.forged_loaded_from =
              FirstExisting(<<"skilled forgery/images",
                              "skilled_forgery/images",
                              "skilled_forgery_images", "forged_images",
                              "forged/images", "skilled forgery",
                              "skilled_forgery">>,
                            probe.existing)

\* C23 witness: the genuine folder was found under its second name with
\* the third one there too, the forged one under a later name with others
\* after it in the order also there.
C23_Witness ==
    /\ probe.pc = "done"
    /\ probe.genuine_loaded_from = <<"genuine_images">>
    /\ "genuine" \in probe.existing
    /\ probe.forged_loaded_from = <<"forged_images">>
    /\ "skilled forgery" \in probe.existing
    /\ "forged" \in probe.existing

====
